---- MODULE Spec2Model ----
(***************************************************************************)
(* Model of asgi_debugger/basic.py: the ASGI middlewares TimingMiddleware  *)
(* and QueryLoggerMiddleware, their send hooks (send_wrapper), the header  *)
(* projection map_state_to_headers and the body cleaning / JSON decoding   *)
(* of QueryLoggerMiddleware.                                               *)
(*                                                                         *)
(* Text is modelled as a sequence of one-character strings, bytes as a     *)
(* sequence of byte tokens (an ASCII byte is the token of its character,   *)
(* "xFF" is the byte 0xFF, which no UTF-8 text contains).                  *)
(***************************************************************************)
EXTENDS Integers, Sequences, FiniteSets, TLC

(***************************************************************************)
(* Bounds of the model.                                                    *)
(***************************************************************************)
\* Largest number of messages the downstream application sends in a request.
MaxMsgs == 2
\* Largest value of the monotonic clock.
MaxClock == 4
\* Largest number of middleware instances constructed.
MaxInstances == 3
\* Largest number of messages each of the interleaved requests sends.
MaxConcMsgs == 2

(***************************************************************************)
(* Text helpers (str methods used by the source).                          *)
(***************************************************************************)
InvalidByte == "xFF"

Whitespace == {" ", "\t", "\n", "\r"}

Digits == {"0", "1", "2", "3", "4", "5", "6", "7", "8", "9"}

DigitVal(c) ==
    CASE c = "0" -> 0 [] c = "1" -> 1 [] c = "2" -> 2 [] c = "3" -> 3
      [] c = "4" -> 4 [] c = "5" -> 5 [] c = "6" -> 6 [] c = "7" -> 7
      [] c = "8" -> 8 [] c = "9" -> 9

\* bytes.decode("utf-8"): fails on a byte sequence that is not UTF-8.
CanDecode(data) == \A i \in 1..Len(data) : data[i] # InvalidByte

Utf8Decode(data) ==
    IF CanDecode(data)
    THEN [ok |-> TRUE, text |-> data]
    ELSE [ok |-> FALSE, text |-> <<>>]

\* str.removeprefix(p)
RemovePrefix(s, p) ==
    IF Len(s) >= Len(p) /\ SubSeq(s, 1, Len(p)) = p
    THEN SubSeq(s, Len(p) + 1, Len(s))
    ELSE s

RECURSIVE LStrip(_)
LStrip(s) ==
    IF s # <<>> /\ Head(s) \in Whitespace THEN LStrip(Tail(s)) ELSE s

RECURSIVE RStrip(_)
RStrip(s) ==
    IF s # <<>> /\ s[Len(s)] \in Whitespace
    THEN RStrip(SubSeq(s, 1, Len(s) - 1))
    ELSE s

\* str.strip()
Strip(s) == RStrip(LStrip(s))

DataPrefix == <<"d", "a", "t", "a", ":", " ">>

\* _clean_data without its .strip().
CleanDataNoStrip(data) ==
    LET d == Utf8Decode(data)
    IN  IF d.ok
        THEN [ok |-> TRUE, text |-> RemovePrefix(d.text, DataPrefix)]
        ELSE [ok |-> FALSE, text |-> <<>>]

\* QueryLoggerMiddleware._clean_data: ok is FALSE where data.decode raises
\* UnicodeDecodeError.
CleanData(data) ==
    LET d == Utf8Decode(data)
    IN  IF d.ok
        THEN [ok |-> TRUE, text |-> Strip(RemovePrefix(d.text, DataPrefix))]
        ELSE [ok |-> FALSE, text |-> <<>>]

(***************************************************************************)
(* Insertion-ordered dict (the per-request state, a parsed JSON object):   *)
(* a sequence of <<key, value>> pairs without repeated keys.               *)
(***************************************************************************)
DictHas(d, k) == \E i \in 1..Len(d) : d[i][1] = k

DictIndex(d, k) == CHOOSE i \in 1..Len(d) : d[i][1] = k

DictGet(d, k, default) == IF DictHas(d, k) THEN d[DictIndex(d, k)][2] ELSE default

\* d[k] = v
DictSet(d, k, v) ==
    IF DictHas(d, k)
    THEN [d EXCEPT ![DictIndex(d, k)] = <<k, v>>]
    ELSE Append(d, <<k, v>>)

(***************************************************************************)
(* json.loads on the JSON texts of the model: literals, integers, strings  *)
(* without escapes, arrays and objects.  A Python value is a record tagged *)
(* with its type; a str read from JSON and a str that is raw text are the  *)
(* same Python type.                                                       *)
(***************************************************************************)
PyNone == [t |-> "none"]

PyBool(b) == [t |-> "bool", b |-> b]

PyInt(n) == [t |-> "int", n |-> n]

PyStr(s) == [t |-> "str", s |-> s]

PyList(l) == [t |-> "list", l |-> l]

PyDict(d) == [t |-> "dict", d |-> d]

\* bool(value)
Truthy(x) ==
    CASE x.t = "none" -> FALSE
      [] x.t = "bool" -> x.b
      [] x.t = "int"  -> x.n # 0
      [] x.t = "str"  -> x.s # <<>>
      [] x.t = "list" -> x.l # <<>>
      [] x.t = "dict" -> x.d # <<>>

JsonFail == [ok |-> FALSE, val |-> PyNone, end |-> 0]

JsonOk(val, end) == [ok |-> TRUE, val |-> val, end |-> end]

\* WHITESPACE.match(s, i).end()
RECURSIVE SkipWs(_, _)
SkipWs(s, i) ==
    IF i <= Len(s) /\ s[i] \in Whitespace THEN SkipWs(s, i + 1) ELSE i

StartsWithAt(s, i, lit) ==
    /\ i + Len(lit) - 1 <= Len(s)
    /\ SubSeq(s, i, i + Len(lit) - 1) = lit

\* scanstring: i is the index after the opening quote.
RECURSIVE ScanString(_, _, _)
ScanString(s, i, acc) ==
    IF i > Len(s) THEN JsonFail
    ELSE IF s[i] = "\"" THEN JsonOk(PyStr(acc), i + 1)
    ELSE IF s[i] \in {"\n", "\t", "\r", "\\"} THEN JsonFail
    ELSE ScanString(s, i + 1, Append(acc, s[i]))

RECURSIVE ScanDigits(_, _, _)
ScanDigits(s, i, n) ==
    IF i <= Len(s) /\ s[i] \in Digits
    THEN ScanDigits(s, i + 1, 10 * n + DigitVal(s[i]))
    ELSE [val |-> n, end |-> i]

\* NUMBER_RE.match, integer part: -?(0|[1-9][0-9]*)
ScanNumber(s, i) ==
    LET neg == i <= Len(s) /\ s[i] = "-"
        j == IF neg THEN i + 1 ELSE i
    IN  IF j > Len(s) \/ s[j] \notin Digits THEN JsonFail
        ELSE IF s[j] = "0" THEN JsonOk(PyInt(0), j + 1)
        ELSE LET d == ScanDigits(s, j, 0)
             IN  JsonOk(PyInt(IF neg THEN 0 - d.val ELSE d.val), d.end)

RECURSIVE ScanOnce(_, _)
RECURSIVE ArrayItems(_, _, _)
RECURSIVE ObjectItems(_, _, _)

\* JSONArray: i is the index after "[".
ParseArray(s, i) ==
    LET j == SkipWs(s, i)
    IN  IF j <= Len(s) /\ s[j] = "]" THEN JsonOk(PyList(<<>>), j + 1)
        ELSE ArrayItems(s, j, <<>>)

\* JSONObject: i is the index after "{".
ParseObject(s, i) ==
    LET j == SkipWs(s, i)
    IN  IF j > Len(s) THEN JsonFail
        ELSE IF s[j] = "}" THEN JsonOk(PyDict(<<>>), j + 1)
        ELSE IF s[j] # "\"" THEN JsonFail
        ELSE ObjectItems(s, j + 1, <<>>)

\* scan_once
ScanOnce(s, i) ==
    IF i > Len(s) THEN JsonFail
    ELSE IF s[i] = "\"" THEN ScanString(s, i + 1, <<>>)
    ELSE IF s[i] = "{" THEN ParseObject(s, i + 1)
    ELSE IF s[i] = "[" THEN ParseArray(s, i + 1)
    ELSE IF StartsWithAt(s, i, <<"n", "u", "l", "l">>) THEN JsonOk(PyNone, i + 4)
    ELSE IF StartsWithAt(s, i, <<"t", "r", "u", "e">>)
         THEN JsonOk(PyBool(TRUE), i + 4)
    ELSE IF StartsWithAt(s, i, <<"f", "a", "l", "s", "e">>)
         THEN JsonOk(PyBool(FALSE), i + 5)
    ELSE ScanNumber(s, i)

ArrayItems(s, i, acc) ==
    LET r == ScanOnce(s, i)
        k == SkipWs(s, r.end)
    IN  IF ~r.ok \/ k > Len(s) THEN JsonFail
        ELSE IF s[k] = "]" THEN JsonOk(PyList(Append(acc, r.val)), k + 1)
        ELSE IF s[k] # "," THEN JsonFail
        ELSE ArrayItems(s, SkipWs(s, k + 1), Append(acc, r.val))

\* i is the index after the opening quote of a key.
ObjectItems(s, i, acc) ==
    LET key == ScanString(s, i, <<>>)
        c == SkipWs(s, key.end)
        r == ScanOnce(s, SkipWs(s, c + 1))
        k == SkipWs(s, r.end)
        n == SkipWs(s, k + 1)
    IN  IF ~key.ok \/ c > Len(s) \/ s[c] # ":" THEN JsonFail
        ELSE IF ~r.ok \/ k > Len(s) THEN JsonFail
        ELSE IF s[k] = "}"
             THEN JsonOk(PyDict(DictSet(acc, key.val.s, r.val)), k + 1)
        ELSE IF s[k] # "," \/ n > Len(s) \/ s[n] # "\"" THEN JsonFail
        ELSE ObjectItems(s, n + 1, DictSet(acc, key.val.s, r.val))

\* json.loads(text): ok is FALSE where it raises json.JSONDecodeError.
JsonLoads(text) ==
    LET r == ScanOnce(text, SkipWs(text, 1))
    IN  IF r.ok /\ SkipWs(text, r.end) = Len(text) + 1
        THEN [ok |-> TRUE, val |-> r.val]
        ELSE [ok |-> FALSE, val |-> PyNone]

\* try: json.loads(data) / except json.JSONDecodeError: data
DecodeData(text) ==
    LET r == JsonLoads(text)
    IN  IF r.ok THEN r.val ELSE PyStr(text)

DoneText == <<"[", "D", "O", "N", "E", "]">>

(***************************************************************************)
(* map_state_to_headers and starlette's MutableHeaders.                    *)
(***************************************************************************)
LowerLetters ==
    <<"a", "b", "c", "d", "e", "f", "g", "h", "i", "j", "k", "l", "m",
      "n", "o", "p", "q", "r", "s", "t", "u", "v", "w", "x", "y", "z">>

UpperLetters ==
    <<"A", "B", "C", "D", "E", "F", "G", "H", "I", "J", "K", "L", "M",
      "N", "O", "P", "Q", "R", "S", "T", "U", "V", "W", "X", "Y", "Z">>

\* The upper-case letter of each lower-case letter, and the reverse.
UpperOf ==
    [c \in {LowerLetters[i] : i \in 1..26} |->
        UpperLetters[CHOOSE i \in 1..26 : LowerLetters[i] = c]]

LowerOf ==
    [c \in {UpperLetters[i] : i \in 1..26} |->
        LowerLetters[CHOOSE i \in 1..26 : UpperLetters[i] = c]]

IsLower(c) == c \in DOMAIN UpperOf

IsUpper(c) == c \in DOMAIN LowerOf

ToUpper(c) == IF IsLower(c) THEN UpperOf[c] ELSE c

ToLower(c) == IF IsUpper(c) THEN LowerOf[c] ELSE c

\* str.lower()
Lower(s) == [i \in 1..Len(s) |-> ToLower(s[i])]

\* str.replace(a, b) for one-character a and b
Replace(s, a, b) == [i \in 1..Len(s) |-> IF s[i] = a THEN b ELSE s[i]]

\* str.title(): a letter after a non-letter is upper-cased, any other
\* letter lower-cased.
Title(s) ==
    [i \in 1..Len(s) |->
        IF i > 1 /\ (IsLower(s[i - 1]) \/ IsUpper(s[i - 1]))
        THEN ToLower(s[i])
        ELSE ToUpper(s[i])]

DigitChar(n) == <<"0", "1", "2", "3", "4", "5", "6", "7", "8", "9">>[n + 1]

RECURSIVE IntDigits(_)
IntDigits(n) ==
    IF n < 10 THEN <<DigitChar(n)>>
    ELSE Append(IntDigits(n \div 10), DigitChar(n % 10))

\* str(v) of a clock value: the clock value n is the float n.0
Str(n) == IntDigits(n) \o <<".", "0">>

HeaderPrefix == <<"X", "-", "B", "u", "g", "-">>

\* The keys of the per-request state, as text.
StartTime == <<"s", "t", "a", "r", "t", "_", "t", "i", "m", "e">>

ReceiveTime == <<"r", "e", "c", "e", "i", "v", "e", "_", "t", "i", "m", "e">>

RespondTime == <<"r", "e", "s", "p", "o", "n", "d", "_", "t", "i", "m", "e">>

EndTime == <<"e", "n", "d", "_", "t", "i", "m", "e">>

RequestData ==
    <<"r", "e", "q", "u", "e", "s", "t", "_", "d", "a", "t", "a">>

ResponseData ==
    <<"r", "e", "s", "p", "o", "n", "s", "e", "_", "d", "a", "t", "a">>

\* map_state_to_headers without its .replace("_", "-").
map_state_to_headers_no_replace(state) ==
    [i \in 1..Len(state) |->
        <<HeaderPrefix \o Title(state[i][1]), Str(state[i][2])>>]

\* {"X-Bug-" + k.replace("_", "-").title(): str(v) for k, v in state.items()}
map_state_to_headers(state) ==
    [i \in 1..Len(state) |->
        <<HeaderPrefix \o Title(Replace(state[i][1], "_", "-")),
          Str(state[i][2])>>]

\* A __setitem__ that appends the header whether or not the name is there.
HeadersSetItemAppend(raw, key, value) == Append(raw, <<Lower(key), value>>)

\* starlette's MutableHeaders.__setitem__ on the raw list (the key is
\* lower-cased and compared with the raw names as they are): the first entry of that name
\* is replaced, later ones are deleted, a new name is appended.
HeadersSetItem(raw, key, value) ==
    LET set_key == Lower(key)
        found == {i \in 1..Len(raw) : raw[i][1] = set_key}
        first == CHOOSE i \in found : \A j \in found : i <= j
        marked == [i \in 1..Len(raw) |->
                      IF i = first THEN <<<<set_key, value>>, TRUE>>
                      ELSE <<raw[i], i \notin found>>]
        kept == SelectSeq(marked, LAMBDA h : h[2])
    IN  IF found = {} THEN Append(raw, <<set_key, value>>)
        ELSE [i \in 1..Len(kept) |-> kept[i][1]]

\* The headers of the message replaced by the headers made from the state,
\* instead of merged with them.
HeadersReplaced(raw, other) ==
    [i \in 1..Len(other) |-> <<Lower(other[i][1]), other[i][2]>>]

\* MutableHeaders.update(other)
RECURSIVE HeadersUpdate(_, _)
HeadersUpdate(raw, other) ==
    IF other = <<>> THEN raw
    ELSE HeadersUpdate(HeadersSetItem(raw, Head(other)[1], Head(other)[2]),
                       Tail(other))

(***************************************************************************)
(* The requests, and what the downstream application may send.             *)
(***************************************************************************)
Reqs == {1}

Middlewares == {"TimingMiddleware", "QueryLoggerMiddleware"}

Scopes ==
    { [type |-> "http", method |-> "POST", path |-> "/q"],
      [type |-> "websocket", method |-> "", path |-> "/ws"] }

NoScope == [type |-> "", method |-> "", path |-> ""]

Via == <<"v", "i", "a">>

XBugStartTime ==
    <<"x", "-", "b", "u", "g", "-", "s", "t", "a", "r", "t", "-",
      "t", "i", "m", "e">>

XBugReceiveTime ==
    <<"x", "-", "b", "u", "g", "-", "r", "e", "c", "e", "i", "v", "e", "-",
      "t", "i", "m", "e">>

XBugRespondTime ==
    <<"x", "-", "b", "u", "g", "-", "r", "e", "s", "p", "o", "n", "d", "-",
      "t", "i", "m", "e">>

XBugEndTime ==
    <<"x", "-", "b", "u", "g", "-", "e", "n", "d", "-", "t", "i", "m", "e">>

\* Raw header lists an application puts in http.response.start.
HeaderLists ==
    { <<>>,
      << <<Via, <<"a">>>> >>,
      << <<XBugStartTime, <<"o", "l", "d">>>>, <<Via, <<"a">>>> >>,
      << <<XBugEndTime, <<"a", "p", "p">>>> >> }

\* Body bytes an application puts in http.request / http.response.body.
BodyEmpty == <<>>

\* {"ok":true}
BodyOkJson == <<"{", "\"", "o", "k", "\"", ":", "t", "r", "u", "e", "}">>

\* data: [DONE]
BodyDataDone == <<"d", "a", "t", "a", ":", " ", "[", "D", "O", "N", "E", "]">>

\* "[DONE]"
BodyQuotedDone == <<"\"", "[", "D", "O", "N", "E", "]", "\"">>

\* data: [1, "a"]\n
BodyDataList ==
    <<"d", "a", "t", "a", ":", " ", "[", "1", ",", " ", "\"", "a", "\"", "]",
      "\n">>

\* " hi\n"
BodyHi == <<" ", "h", "i", "\n">>

BodyZero == <<"0">>

BodyNull == <<"n", "u", "l", "l">>

\* b"\xff"
BodyInvalid == <<InvalidByte>>

Bodies ==
    {BodyEmpty, BodyOkJson, BodyDataDone, BodyQuotedDone, BodyDataList,
     BodyHi, BodyZero, BodyNull, BodyInvalid}

\* The bodies of the http.request messages.
RequestBodies == {BodyOkJson, BodyDataList, BodyHi, BodyInvalid}

Message(type, hasHeaders, headers, hasBody, body) ==
    [id |-> 0, type |-> type, hasHeaders |-> hasHeaders, headers |-> headers,
     hasBody |-> hasBody, body |-> body]

\* The messages an application under TimingMiddleware sends: the hook
\* reads the type and the headers.
TimingMessages ==
    {Message("http.request", FALSE, <<>>, TRUE, <<>>),
     Message("http.response.body", FALSE, <<>>, TRUE, <<"0">>),
     Message("http.response.start", FALSE, <<>>, FALSE, <<>>)}
    \cup {Message("http.response.start", TRUE, h, FALSE, <<>>) :
             h \in HeaderLists}

\* The messages an application under QueryLoggerMiddleware sends: the hook
\* reads the type and the body.
QueryMessages ==
    {Message("http.response.start", TRUE, <<>>, FALSE, <<>>),
     Message("http.request", FALSE, <<>>, FALSE, <<>>),
     Message("http.response.body", FALSE, <<>>, FALSE, <<>>)}
    \cup {Message("http.request", FALSE, <<>>, TRUE, b) : b \in RequestBodies}
    \cup {Message("http.response.body", FALSE, <<>>, TRUE, b) : b \in Bodies}

MessagesOf(middleware) ==
    IF middleware = "TimingMiddleware" THEN TimingMessages ELSE QueryMessages

\* The messages an application sends in a scope that is not HTTP: messages
\* either hook would change or fail on if it were applied.
PassMessages ==
    {Message("websocket.accept", TRUE, << <<Via, <<"a">>>> >>, FALSE, <<>>),
     Message("http.response.start", TRUE, << <<Via, <<"a">>>> >>, FALSE, <<>>),
     Message("http.response.body", FALSE, <<>>, TRUE, BodyInvalid)}

(***************************************************************************)
(* State.                                                                  *)
(***************************************************************************)
VARIABLES
    clock,       \* last value returned by time.monotonic()
    mw,          \* mw[r]: the middleware class handling request r
    pc,          \* pc[r]: "init", "app" (awaiting self.app), "send" (the
                 \* application awaits send, the real send is running),
                 \* "done"
    scope,       \* scope[r]: the scope __call__ was given
    sendFn,      \* sendFn[r]: the send the application got: "raw", "wrapped"
    hasState,    \* hasState[r]: the state dict of the request was created
    state,       \* state[o]: the state dict object o; request r uses the
                 \* object StateRef(r)
    appSent,     \* appSent[r]: messages as the application passed them
    sendResult,  \* sendResult[r][i]: "ok" or the error send raised for i
    forwarded,   \* forwarded[r]: messages passed to the real send
    realResult,  \* realResult[r][j]: "ok" or the error the real send raised
                 \* for forwarded[r][j]
    log,         \* records emitted on the "debug.access" logger
    handlers,    \* number of handlers of the "debug.access" logger
    constructed, \* number of middleware instances constructed
    output,      \* what the handlers wrote: one entry per record and handler
    appOutcome,  \* appOutcome[r]: "returned" or the error the app raised
    outcome      \* outcome[r]: "returned" or the error __call__ raised

vars == <<clock, mw, pc, scope, sendFn, hasState, state, appSent, sendResult,
          forwarded, realResult, log, handlers, constructed, output,
          appOutcome, outcome>>

\* A constructor that adds its handler only to a logger that has none.
AddHandlerOnce(n) == IF n = 0 THEN 1 ELSE n

\* self.logger.addHandler(logging.StreamHandler()) registers one more
\* handler on the logger.
AddHandler(n) == n + 1

Init ==
    /\ clock = 0
    /\ mw \in [Reqs -> Middlewares]
    /\ pc = [r \in Reqs |-> "init"]
    /\ scope = [r \in Reqs |-> NoScope]
    /\ sendFn = [r \in Reqs |-> "none"]
    /\ hasState = [r \in Reqs |-> FALSE]
    /\ state = [r \in Reqs |-> <<>>]
    /\ appSent = [r \in Reqs |-> <<>>]
    /\ sendResult = [r \in Reqs |-> <<>>]
    /\ forwarded = [r \in Reqs |-> <<>>]
    /\ realResult = [r \in Reqs |-> <<>>]
    /\ log = <<>>
    /\ handlers = AddHandler(0)
    /\ constructed = 1
    /\ output = <<>>
    /\ appOutcome = [r \in Reqs |-> "none"]
    /\ outcome = [r \in Reqs |-> "none"]

\* time.monotonic(): never less than the value returned before.
Monotonic == {t \in {clock, clock + 1} : t <= MaxClock}

(***************************************************************************)
(* The send hooks.  A hook result holds the state and the message as the   *)
(* hook leaves them, the records it logged, and error: "ok" where the hook *)
(* reaches `await send(message)`, else the exception it raises before.     *)
(***************************************************************************)
\* The state kept in one dict of the middleware instance, shared by its
\* requests.
StateRefShared(r) == 1

\* The state dict object of request r: `state = {...}` in __call__ makes a
\* new object for each call.
StateRef(r) == r

\* What the k handlers of the logger write for records: each record once
\* per handler.
Emit(records, k) ==
    [n \in 1..(Len(records) * k) |->
        [record |-> records[((n - 1) \div k) + 1],
         handler |-> ((n - 1) % k) + 1]]

EventRecord(r, message) == [req |-> r, kind |-> "event", args |-> <<message>>]

\* send_wrapper with the two keys exchanged: respond_time written for
\* http.request, receive_time for http.response.start.
TimingSendWrapperSwapped(r, st, message, t) ==
    LET st1 == IF message.type = "http.request"
               THEN DictSet(st, RespondTime, t)
               ELSE st
        st2 == DictSet(st1, ReceiveTime, t)
    IN  IF message.type # "http.response.start"
        THEN [state |-> st1, message |-> message, logs |-> <<>>,
              error |-> "ok"]
        ELSE IF ~message.hasHeaders
        THEN [state |-> st2, message |-> message, logs |-> <<>>,
              error |-> "KeyError"]
        ELSE [state |-> st2,
              message |-> [message EXCEPT !.headers =
                              HeadersUpdate(@, map_state_to_headers(st2))],
              logs |-> <<>>, error |-> "ok"]

\* TimingMiddleware.send_wrapper up to `await send(message)`; t is the
\* value time.monotonic() returns.  A message without "headers" raises
\* KeyError at message["headers"], after respond_time was written.
TimingSendWrapper(r, st, message, t) ==
    LET st1 == IF message.type = "http.request"
               THEN DictSet(st, ReceiveTime, t)
               ELSE st
        st2 == DictSet(st1, RespondTime, t)
    IN  IF message.type # "http.response.start"
        THEN [state |-> st1, message |-> message, logs |-> <<>>,
              error |-> "ok"]
        ELSE IF ~message.hasHeaders
        THEN [state |-> st2, message |-> message, logs |-> <<>>,
              error |-> "KeyError"]
        ELSE [state |-> st2,
              message |-> [message EXCEPT !.headers =
                              HeadersUpdate(@, map_state_to_headers(st2))],
              logs |-> <<>>, error |-> "ok"]

\* message.get("body", b"")
BodyOf(message) == IF message.hasBody THEN message.body ELSE <<>>

\* The test of line 106 without its != "[DONE]".
KeepsResponseTruthy(response_data) == Truthy(response_data)

\* response_data and response_data != "[DONE]"
KeepsResponse(response_data) ==
    Truthy(response_data) /\ response_data # PyStr(DoneText)

\* send_wrapper with the per-event logger.debug placed after the decoding:
\* a message whose body fails to decode is not logged.
QuerySendWrapperLogsLate(r, st, message) ==
    LET data == CleanData(BodyOf(message))
        value == DecodeData(data.text)
        logs == <<EventRecord(r, message)>>
    IN  IF message.type \notin {"http.request", "http.response.body"}
        THEN [state |-> st, message |-> message, logs |-> logs,
              error |-> "ok"]
        ELSE IF ~data.ok
        THEN [state |-> st, message |-> message, logs |-> <<>>,
              error |-> "UnicodeDecodeError"]
        ELSE IF message.type = "http.request"
        THEN [state |-> DictSet(st, RequestData, value),
              message |-> message, logs |-> logs, error |-> "ok"]
        ELSE [state |-> IF KeepsResponse(value)
                        THEN DictSet(st, ResponseData, value)
                        ELSE st,
              message |-> message, logs |-> logs, error |-> "ok"]

\* QueryLoggerMiddleware.send_wrapper up to `await send(message)`.
QuerySendWrapper(r, st, message) ==
    LET data == CleanData(BodyOf(message))
        value == DecodeData(data.text)
        logs == <<EventRecord(r, message)>>
    IN  IF message.type \notin {"http.request", "http.response.body"}
        THEN [state |-> st, message |-> message, logs |-> logs,
              error |-> "ok"]
        ELSE IF ~data.ok
        THEN [state |-> st, message |-> message, logs |-> logs,
              error |-> "UnicodeDecodeError"]
        ELSE IF message.type = "http.request"
        THEN [state |-> DictSet(st, RequestData, value),
              message |-> message, logs |-> logs, error |-> "ok"]
        ELSE [state |-> IF KeepsResponse(value)
                        THEN DictSet(st, ResponseData, value)
                        ELSE st,
              message |-> message, logs |-> logs, error |-> "ok"]

\* The send the application was given, applied to message, up to the call
\* of the real send: send itself for a non-HTTP scope, else the lambda of
\* send_factory, which calls self.send_wrapper(message, send, state).
SendHook(r, message, t) ==
    IF sendFn[r] = "raw"
    THEN [state |-> state[StateRef(r)], message |-> message, logs |-> <<>>,
          error |-> "ok"]
    ELSE IF mw[r] = "TimingMiddleware"
    THEN TimingSendWrapper(r, state[StateRef(r)], message, t)
    ELSE QuerySendWrapper(r, state[StateRef(r)], message)

\* The hook calls time.monotonic() for this message.
ReadsClock(r, message) ==
    /\ sendFn[r] = "wrapped"
    /\ mw[r] = "TimingMiddleware"
    /\ message.type \in {"http.request", "http.response.start"}

(***************************************************************************)
(* __call__                                                                *)
(***************************************************************************)
\* __call__ without its test of the scope type.
IgnoresNoScope(sc) == FALSE

\* scope["type"] != "http"
IgnoresScope(sc) == sc.type # "http"

\* The state dict __call__ creates for an HTTP request.
NewState(middleware, t) ==
    IF middleware = "TimingMiddleware" THEN << <<StartTime, t>> >> ELSE <<>>

\* __call__ up to `await self.app(...)`.
Call(r, sc, t) ==
    /\ pc[r] = "init"
    /\ pc' = [pc EXCEPT ![r] = "app"]
    /\ scope' = [scope EXCEPT ![r] = sc]
    /\ IF IgnoresScope(sc)
       THEN /\ sendFn' = [sendFn EXCEPT ![r] = "raw"]
            /\ UNCHANGED <<clock, hasState, state>>
       ELSE /\ sendFn' = [sendFn EXCEPT ![r] = "wrapped"]
            /\ hasState' = [hasState EXCEPT ![r] = TRUE]
            /\ state' = [state EXCEPT ![StateRef(r)] = NewState(mw[r], t)]
            /\ clock' = IF mw[r] = "TimingMiddleware" THEN t ELSE clock
    /\ UNCHANGED <<mw, appSent, sendResult, forwarded, realResult, log,
                   handlers, constructed, output, appOutcome, outcome>>

\* What the wrapped send gives the application for a message: the error
\* of the hook where it raised (hookError # "ok"), else what the real send
\* returned or raised: neither send_wrapper nor the lambda of send_factory
\* catches.  WrapperResultSwallowed is the wrapper with the await in a
\* try/except that passes.
WrapperResultSwallowed(hookError, sent) == "ok"

WrapperResult(hookError, sent) == IF hookError # "ok" THEN hookError ELSE sent

\* The messages the application can pass to send: new ones, and the message
\* objects it passed before, as send_wrapper left them (TimingMiddleware
\* writes the headers into the object it was given).
Sendable(r) ==
    IF scope[r].type # "http" THEN PassMessages
    ELSE MessagesOf(mw[r])
            \cup {[forwarded[r][j] EXCEPT !.id = 0] :
                      j \in 1..Len(forwarded[r])}

\* The application awaits send(message); the real send returns or raises
\* as result says.
AppSend(r, m, t, result) ==
    LET message == [m EXCEPT !.id = Len(appSent[r]) + 1]
        h == SendHook(r, message, t)
    IN  /\ pc[r] = "app"
        /\ Len(appSent[r]) < MaxMsgs
        /\ appSent' = [appSent EXCEPT ![r] = Append(@, message)]
        /\ state' = [state EXCEPT ![StateRef(r)] = h.state]
        /\ log' = log \o h.logs
        /\ output' = output \o Emit(h.logs, handlers)
        /\ clock' = IF ReadsClock(r, message) THEN t ELSE clock
        /\ sendResult' = [sendResult EXCEPT ![r] =
                             Append(@, WrapperResult(h.error, result))]
        /\ IF h.error = "ok"
           THEN /\ forwarded' = [forwarded EXCEPT ![r] = Append(@, h.message)]
                /\ realResult' = [realResult EXCEPT ![r] = Append(@, result)]
           ELSE UNCHANGED <<forwarded, realResult>>
        /\ UNCHANGED <<mw, pc, scope, sendFn, hasState, handlers, constructed,
                       appOutcome, outcome>>

\* The application calls send(message): the hook runs and, unless it
\* raises, calls the real send, which suspends.
SendEnter(r, m, t) ==
    LET message == [m EXCEPT !.id = Len(appSent[r]) + 1]
        h == SendHook(r, message, t)
    IN  /\ pc[r] = "app"
        /\ Len(appSent[r]) < MaxMsgs
        /\ appSent' = [appSent EXCEPT ![r] = Append(@, message)]
        /\ state' = [state EXCEPT ![StateRef(r)] = h.state]
        /\ log' = log \o h.logs
        /\ output' = output \o Emit(h.logs, handlers)
        /\ clock' = IF ReadsClock(r, message) THEN t ELSE clock
        /\ IF h.error = "ok"
           THEN /\ forwarded' = [forwarded EXCEPT ![r] = Append(@, h.message)]
                /\ pc' = [pc EXCEPT ![r] = "send"]
                /\ UNCHANGED sendResult
           ELSE /\ sendResult' = [sendResult EXCEPT ![r] =
                                     Append(@, WrapperResult(h.error, "ok"))]
                /\ UNCHANGED <<forwarded, pc>>
        /\ UNCHANGED <<mw, scope, sendFn, hasState, realResult, handlers,
                       constructed, appOutcome, outcome>>

\* The real send returns or raises (result) and the application resumes.
SendLeave(r, result) ==
    /\ pc[r] = "send"
    /\ pc' = [pc EXCEPT ![r] = "app"]
    /\ realResult' = [realResult EXCEPT ![r] = Append(@, result)]
    /\ sendResult' = [sendResult EXCEPT ![r] =
                         Append(@, WrapperResult("ok", result))]
    /\ UNCHANGED <<clock, mw, scope, sendFn, hasState, state, appSent,
                   forwarded, log, handlers, constructed, output, appOutcome,
                   outcome>>

\* The record the finally block of __call__ logs.
ExitRecord(r, middleware, sc, st) ==
    IF middleware = "TimingMiddleware"
    THEN [req |-> r, kind |-> "exit", args |-> <<sc.method, sc.path, st>>]
    ELSE [req |-> r, kind |-> "exit",
          args |-> <<sc.method, sc.path,
                     DictGet(st, RequestData, PyStr(<<"N", "o", "n", "e">>)),
                     DictGet(st, ResponseData, PyStr(<<"N", "o", "n", "e">>))>>]

\* The finally block without its `state["end_time"] = time.monotonic()`.
ExitStateUnstamped(middleware, st, t) == st

\* The state as the finally block leaves it.
ExitState(middleware, st, t) ==
    IF middleware = "TimingMiddleware" THEN DictSet(st, EndTime, t) ELSE st

\* The logging of __call__ placed after the await instead of in a finally
\* block: nothing is logged when self.app raises.
ExitLogsOnReturnOnly(r, result, t) ==
    IF sendFn[r] = "raw" \/ result # "returned" THEN <<>>
    ELSE <<ExitRecord(r, mw[r], scope[r],
                      ExitState(mw[r], state[StateRef(r)], t))>>

\* What __call__ logs once self.app has ended with result ("returned" or
\* the error raised): nothing for an ignored scope, else the record of the
\* finally block.
ExitLogs(r, result, t) ==
    IF sendFn[r] = "raw" THEN <<>>
    ELSE <<ExitRecord(r, mw[r], scope[r],
                      ExitState(mw[r], state[StateRef(r)], t))>>

\* __call__ with a return in its finally block: the error is swallowed.
CallOutcomeSwallowed(result) == "returned"

\* What the caller of __call__ observes when self.app ended with result:
\* neither branch of __call__ catches, the finally block has no return.
CallOutcome(result) == result

\* __call__ whose finally block logs and then never completes: the request
\* stays in its exit path.
FinishStuck(r, result, t) ==
    /\ pc[r] = "app"
    /\ pc' = [pc EXCEPT ![r] = "exit"]
    /\ appOutcome' = [appOutcome EXCEPT ![r] = result]
    /\ log' = log \o ExitLogs(r, result, t)
    /\ output' = output \o Emit(ExitLogs(r, result, t), handlers)
    /\ IF sendFn[r] = "wrapped"
       THEN /\ state' = [state EXCEPT ![StateRef(r)] =
                            ExitState(mw[r], @, t)]
            /\ clock' = IF mw[r] = "TimingMiddleware" THEN t ELSE clock
       ELSE UNCHANGED <<state, clock>>
    /\ UNCHANGED <<mw, scope, sendFn, hasState, appSent, sendResult,
                   forwarded, realResult, handlers, constructed, outcome>>

\* self.app returns or raises (result): __call__ runs its finally block
\* and returns or re-raises.
Finish(r, result, t) ==
    /\ pc[r] = "app"
    /\ pc' = [pc EXCEPT ![r] = "done"]
    /\ appOutcome' = [appOutcome EXCEPT ![r] = result]
    /\ outcome' = [outcome EXCEPT ![r] = CallOutcome(result)]
    /\ log' = log \o ExitLogs(r, result, t)
    /\ output' = output \o Emit(ExitLogs(r, result, t), handlers)
    /\ IF sendFn[r] = "wrapped"
       THEN /\ state' = [state EXCEPT ![StateRef(r)] =
                            ExitState(mw[r], @, t)]
            /\ clock' = IF mw[r] = "TimingMiddleware" THEN t ELSE clock
       ELSE UNCHANGED <<state, clock>>
    /\ UNCHANGED <<mw, scope, sendFn, hasState, appSent, sendResult,
                   forwarded, realResult, handlers, constructed>>

AppReturn(r, t) == Finish(r, "returned", t)

\* The errors the application may raise: its own, or the one its last call
\* of send raised.
AppErrors(r) ==
    {"AppError"} \cup
    (IF sendResult[r] # <<>>
     THEN {sendResult[r][Len(sendResult[r])]} \ {"ok"}
     ELSE {})

AppRaise(r, e, t) == e \in AppErrors(r) /\ Finish(r, e, t)

SendResults == {"ok", "SendError"}

Next ==
    \/ \E r \in Reqs, sc \in Scopes, t \in Monotonic : Call(r, sc, t)
    \/ \E r \in Reqs, t \in Monotonic, result \in SendResults :
          \E m \in Sendable(r) : AppSend(r, m, t, result)
    \/ \E r \in Reqs, t \in Monotonic : AppReturn(r, t)
    \/ \E r \in Reqs, t \in Monotonic :
          \E e \in AppErrors(r) : AppRaise(r, e, t)

Spec == Init /\ [][Next]_vars

\* The application called for request r ends: it returns or raises.
AppEnds(r) ==
    \E t \in Monotonic :
        AppReturn(r, t) \/ \E e \in AppErrors(r) : AppRaise(r, e, t)

\* The messages of the termination runs: for each middleware
\* one the hook fails on and two it forwards.
LiveMessages(middleware) ==
    IF middleware = "TimingMiddleware"
    THEN {Message("http.request", FALSE, <<>>, TRUE, <<>>),
          Message("http.response.start", FALSE, <<>>, FALSE, <<>>),
          Message("http.response.start", TRUE, <<>>, FALSE, <<>>)}
    ELSE {Message("http.request", FALSE, <<>>, TRUE, BodyOkJson),
          Message("http.response.start", TRUE, <<>>, FALSE, <<>>),
          Message("http.response.body", FALSE, <<>>, TRUE, BodyInvalid)}

NextLive ==
    \/ \E r \in Reqs, sc \in Scopes, t \in Monotonic : Call(r, sc, t)
    \/ \E r \in Reqs, t \in Monotonic, result \in SendResults :
          \E m \in LiveMessages(mw[r]) : AppSend(r, m, t, result)
    \/ \E r \in Reqs, t \in Monotonic : AppReturn(r, t)
    \/ \E r \in Reqs, t \in Monotonic :
          \E e \in AppErrors(r) : AppRaise(r, e, t)

\* The runs in which every application that was called eventually returns
\* or raises.
FairSpec == Init /\ [][NextLive]_vars /\ \A r \in Reqs : WF_vars(AppEnds(r))

(***************************************************************************)
(* Construction of further middleware instances: each __init__ gets the    *)
(* logger "debug.access" of the process and adds a new StreamHandler.      *)
(***************************************************************************)
Construct ==
    /\ constructed < MaxInstances
    /\ constructed' = constructed + 1
    /\ handlers' = AddHandler(handlers)
    /\ UNCHANGED <<clock, mw, pc, scope, sendFn, hasState, state, appSent,
                   sendResult, forwarded, realResult, log, output, appOutcome,
                   outcome>>

NextLog ==
    \/ Construct
    \/ NextLive

SpecLog == Init /\ [][NextLog]_vars

(***************************************************************************)
(* Several HTTP requests handled by one middleware instance as interleaved *)
(* tasks: a task may be suspended where it awaits, that is while the       *)
(* application runs and while the real send runs.                          *)
(***************************************************************************)
ConcReqs == {1, 2}

HttpScopes == {sc \in Scopes : sc.type = "http"}

\* The messages of the interleaved requests.
ConcMessages(middleware) ==
    IF middleware = "TimingMiddleware"
    THEN {Message("http.request", FALSE, <<>>, TRUE, <<>>),
          Message("http.response.start", TRUE, <<>>, FALSE, <<>>)}
    ELSE {Message("http.request", FALSE, <<>>, TRUE, BodyOkJson),
          Message("http.request", FALSE, <<>>, TRUE, BodyDataList),
          Message("http.response.body", FALSE, <<>>, TRUE, BodyHi)}

InitConc ==
    /\ clock = 0
    /\ mw \in {[r \in ConcReqs |-> k] : k \in Middlewares}
    /\ pc = [r \in ConcReqs |-> "init"]
    /\ scope = [r \in ConcReqs |-> NoScope]
    /\ sendFn = [r \in ConcReqs |-> "none"]
    /\ hasState = [r \in ConcReqs |-> FALSE]
    /\ state = [r \in ConcReqs |-> <<>>]
    /\ appSent = [r \in ConcReqs |-> <<>>]
    /\ sendResult = [r \in ConcReqs |-> <<>>]
    /\ forwarded = [r \in ConcReqs |-> <<>>]
    /\ realResult = [r \in ConcReqs |-> <<>>]
    /\ log = <<>>
    /\ handlers = AddHandler(0)
    /\ constructed = 1
    /\ output = <<>>
    /\ appOutcome = [r \in ConcReqs |-> "none"]
    /\ outcome = [r \in ConcReqs |-> "none"]

\* In the interleaved runs every call of time.monotonic() returns a later
\* value, up to MaxClock.
Later == {IF clock < MaxClock THEN clock + 1 ELSE clock}

NextConc ==
    \/ \E r \in ConcReqs, sc \in HttpScopes, t \in Later : Call(r, sc, t)
    \/ \E r \in ConcReqs, t \in Later :
          \E m \in ConcMessages(mw[r]) :
              Len(appSent[r]) < MaxConcMsgs /\ SendEnter(r, m, t)
    \/ \E r \in ConcReqs : SendLeave(r, "ok")
    \/ \E r \in ConcReqs, t \in Later : AppReturn(r, t)
    \/ \E r \in ConcReqs, t \in Later : AppRaise(r, "AppError", t)

SpecConc == InitConc /\ [][NextConc]_vars

(***************************************************************************)
(* Properties.                                                             *)
(***************************************************************************)
\* The requests the middleware intercepts (HTTP scope, wrapped send).
Intercepted(r) == pc[r] # "init" /\ scope[r].type = "http"

TimingReq(r) == Intercepted(r) /\ mw[r] = "TimingMiddleware"

QueryReq(r) == Intercepted(r) /\ mw[r] = "QueryLoggerMiddleware"

Ids(messages) == [i \in 1..Len(messages) |-> messages[i].id]

ExitRecords(r) == SelectSeq(log, LAMBDA e : e.req = r /\ e.kind = "exit")

RecordsOf(r) == SelectSeq(log, LAMBDA e : e.req = r)

HasHeader(headers, name) == \E i \in 1..Len(headers) : headers[i][1] = name

Raised(result) == result \notin {"none", "returned"}

\* C1 (as claimed): for an HTTP scope the messages that reached the real
\* send are exactly the messages the application passed to the wrapped
\* send, in the same order, none dropped, none twice.
C1_ForwardedIsSent ==
    \A r \in Reqs : Intercepted(r) => Ids(forwarded[r]) = Ids(appSent[r])

\* C2: an HTTP request has no exit log record while the application runs
\* and exactly one once __call__ has ended, whether the application
\* returned or raised.
C2_ExactlyOneExitRecord ==
    \A r \in Reqs :
        Intercepted(r) =>
            Len(ExitRecords(r)) = IF pc[r] = "done" THEN 1 ELSE 0

C2_Witness ==
    \E r \in Reqs :
        /\ Intercepted(r)
        /\ pc[r] = "done"
        /\ Raised(appOutcome[r])
        /\ Len(ExitRecords(r)) = 1
        /\ appSent[r] = <<>>

\* C3: when the application raises while handling an HTTP request, the
\* caller of __call__ observes that same error, never a normal return, and
\* the exit log record of the request is in the log by then.
C3_FailureReraisedAfterLog ==
    \A r \in Reqs :
        Intercepted(r) /\ Raised(appOutcome[r]) =>
            /\ outcome[r] = appOutcome[r]
            /\ Len(ExitRecords(r)) = 1

C3_Witness ==
    \E r \in Reqs :
        /\ Intercepted(r)
        /\ outcome[r] = "AppError"
        /\ \E i \in 1..Len(forwarded[r]) :
              forwarded[r][i].type = "http.response.start"
        /\ Len(ExitRecords(r)) = 1

\* C4: for a scope that is not HTTP the application gets the original send,
\* no state is created, no record is logged, and each message the
\* application sends reaches the real send as it was sent.
C4_NonHttpPassThrough ==
    \A r \in Reqs :
        pc[r] # "init" /\ scope[r].type # "http" =>
            /\ sendFn[r] = "raw"
            /\ ~hasState[r]
            /\ state[r] = <<>>
            /\ RecordsOf(r) = <<>>
            /\ forwarded[r] = appSent[r]
            /\ pc[r] = "done" => outcome[r] = appOutcome[r]

C4_Witness ==
    \E r \in Reqs :
        /\ scope[r].type = "websocket"
        /\ pc[r] = "done"
        /\ Len(appSent[r]) = MaxMsgs
        /\ \E i \in 1..Len(forwarded[r]) :
              /\ forwarded[r][i].type = "http.response.start"
              /\ forwarded[r][i].hasHeaders
              /\ forwarded[r][i].headers = << <<Via, <<"a">>>> >>

\* C5 (as claimed): under TimingMiddleware every http.response.start
\* message delivered to the real send carries X-Bug-Start-Time and
\* X-Bug-Receive-Time.
C5_StartAndReceiveHeaders ==
    \A r \in Reqs :
        TimingReq(r) =>
            \A i \in 1..Len(forwarded[r]) :
                forwarded[r][i].type = "http.response.start" =>
                    /\ HasHeader(forwarded[r][i].headers, XBugStartTime)
                    /\ HasHeader(forwarded[r][i].headers, XBugReceiveTime)

\* The largest index of messages whose message satisfies Test, 0 if none.
LastIndex(messages, Test(_)) ==
    LET hits == {i \in 1..Len(messages) : Test(messages[i])}
    IN  IF hits = {} THEN 0 ELSE CHOOSE i \in hits : \A j \in hits : j <= i

IsRequest(m) == m.type = "http.request"

IsStart(m) == m.type = "http.response.start"

StartBelow(st, k) == DictGet(st, StartTime, 0) <= DictGet(st, k, MaxClock + 1)

\* C6 (as claimed): under TimingMiddleware, in every state of a request,
\* respond_time >= receive_time >= start_time for the keys present,
\* whatever the order in which http.request and http.response.start pass.
C6_TimesOrdered ==
    \A r \in Reqs :
        TimingReq(r) =>
            /\ StartBelow(state[r], ReceiveTime)
            /\ StartBelow(state[r], RespondTime)
            /\ DictHas(state[r], ReceiveTime) /\ DictHas(state[r], RespondTime)
                  => DictGet(state[r], ReceiveTime, 0)
                        <= DictGet(state[r], RespondTime, 0)

\* C6 (amended): receive_time and respond_time are never below start_time,
\* and respond_time >= receive_time holds whenever the latest
\* http.response.start passed the hook after the latest http.request.
C6_TimesOrderedWhenStartIsLatest ==
    \A r \in Reqs :
        TimingReq(r) =>
            /\ DictHas(state[r], StartTime)
            /\ StartBelow(state[r], ReceiveTime)
            /\ StartBelow(state[r], RespondTime)
            /\ LastIndex(appSent[r], IsRequest) > 0
                  <=> DictHas(state[r], ReceiveTime)
            /\ LastIndex(appSent[r], IsStart) > 0
                  <=> DictHas(state[r], RespondTime)
            /\ 0 < LastIndex(appSent[r], IsRequest)
                  /\ LastIndex(appSent[r], IsRequest)
                        < LastIndex(appSent[r], IsStart)
                  => DictGet(state[r], ReceiveTime, 0)
                        <= DictGet(state[r], RespondTime, 0)

C6_Witness ==
    \E r \in Reqs :
        /\ TimingReq(r)
        /\ Len(appSent[r]) = 2
        /\ IsRequest(appSent[r][1])
        /\ IsStart(appSent[r][2])
        /\ DictGet(state[r], StartTime, 0) < DictGet(state[r], ReceiveTime, 0)
        /\ DictGet(state[r], ReceiveTime, 0) < DictGet(state[r], RespondTime, 0)

EndTimeHeaders(headers) == SelectSeq(headers, LAMBDA h : h[1] = XBugEndTime)

\* C7 (as claimed): under TimingMiddleware every http.response.start
\* delivered to the real send carries X-Bug-End-Time, X-Bug-Start-Time,
\* X-Bug-Receive-Time and X-Bug-Respond-Time.
C7_AllFourHeaders ==
    \A r \in Reqs :
        TimingReq(r) =>
            \A i \in 1..Len(forwarded[r]) :
                IsStart(forwarded[r][i]) =>
                    /\ HasHeader(forwarded[r][i].headers, XBugEndTime)
                    /\ HasHeader(forwarded[r][i].headers, XBugStartTime)
                    /\ HasHeader(forwarded[r][i].headers, XBugReceiveTime)
                    /\ HasHeader(forwarded[r][i].headers, XBugRespondTime)

\* C7 (amended): every http.response.start delivered under TimingMiddleware
\* carries X-Bug-Start-Time and X-Bug-Respond-Time, and X-Bug-Receive-Time
\* when an http.request message passed the hook before it; the middleware
\* writes no X-Bug-End-Time header (the only ones delivered are those the
\* application itself put in the message).
C7_InjectedHeadersWithoutEndTime ==
    \A r \in Reqs :
        TimingReq(r) =>
            \A i \in 1..Len(forwarded[r]) :
                LET f == forwarded[r][i]
                IN  IsStart(f) =>
                        /\ HasHeader(f.headers, XBugStartTime)
                        /\ HasHeader(f.headers, XBugRespondTime)
                        /\ (\E j \in 1..(f.id - 1) : IsRequest(appSent[r][j]))
                              => HasHeader(f.headers, XBugReceiveTime)
                        /\ EndTimeHeaders(f.headers)
                              = EndTimeHeaders(appSent[r][f.id].headers)

C7_Witness ==
    \E r \in Reqs :
        /\ TimingReq(r)
        /\ pc[r] = "done"
        /\ DictHas(state[r], EndTime)
        /\ Len(forwarded[r]) = 2
        /\ IsRequest(forwarded[r][1])
        /\ IsStart(forwarded[r][2])
        /\ HasHeader(forwarded[r][2].headers, XBugReceiveTime)
        /\ ~HasHeader(forwarded[r][2].headers, XBugEndTime)

ResponseDataOf(st) == DictGet(st, ResponseData, [t |-> "absent"])

\* The application has just sent message number Len(appSent[r]) + 1.
JustSent(r) == Len(appSent'[r]) = Len(appSent[r]) + 1

\* C8: under QueryLoggerMiddleware response_data is never the text "[DONE]"
\* and never the empty text, and an http.response.body message whose
\* cleaned body is "[DONE]" or empty leaves response_data as it was.
C8_DoneAndEmptyNeverStored ==
    /\ [](\A r \in Reqs :
            QueryReq(r) =>
                ResponseDataOf(state[r]) \notin {PyStr(DoneText), PyStr(<<>>)})
    /\ [][\A r \in Reqs :
            /\ QueryReq(r)
            /\ JustSent(r)
            /\ appSent'[r][Len(appSent'[r])].type = "http.response.body"
            /\ BodyOf(appSent'[r][Len(appSent'[r])])
                  \in {BodyEmpty, BodyDataDone}
            => ResponseDataOf(state'[r]) = ResponseDataOf(state[r])]_vars

C8_Witness ==
    \E r \in Reqs :
        /\ QueryReq(r)
        /\ Len(appSent[r]) = 2
        /\ appSent[r][1].type = "http.response.body"
        /\ appSent[r][1].body = BodyOkJson
        /\ appSent[r][2].type = "http.response.body"
        /\ appSent[r][2].body = BodyDataDone
        /\ sendResult[r] = <<"ok", "ok">>
        /\ ResponseDataOf(state[r])
              = PyDict(<< <<(<<"o", "k">>), PyBool(TRUE)>> >>)

\* What the claim expects to be stored for body bytes that decode: the
\* parsed value where the text is valid JSON, else the original text.
ParsedOrOriginal(body) ==
    IF JsonLoads(body).ok THEN JsonLoads(body).val ELSE PyStr(body)

Decodes(m) == BodyOf(m) # BodyInvalid

IsDecodableRequest(m) == m.type = "http.request" /\ Decodes(m)

IsDecodableResponse(m) == m.type = "http.response.body" /\ Decodes(m)

\* C9 (as claimed): request_data, respectively response_data, is the parsed
\* JSON value of the latest http.request, respectively http.response.body,
\* whose body is valid JSON, and the original text of one whose body is not.
C9_StoredIsParsedOrOriginal ==
    \A r \in Reqs :
        QueryReq(r) =>
            LET i == LastIndex(appSent[r], IsDecodableRequest)
                j == LastIndex(appSent[r], IsDecodableResponse)
            IN  /\ i > 0 =>
                      /\ DictHas(state[r], RequestData)
                      /\ DictGet(state[r], RequestData, PyNone)
                            = ParsedOrOriginal(BodyOf(appSent[r][i]))
                /\ j > 0 =>
                      /\ DictHas(state[r], ResponseData)
                      /\ DictGet(state[r], ResponseData, PyNone)
                            = ParsedOrOriginal(BodyOf(appSent[r][j]))

\* json.loads of the cleaned text (UTF-8 text, one leading "data: " removed,
\* surrounding whitespace stripped) where that is valid JSON, else the
\* cleaned text, written out for the bodies of the model.
CleanedValue(body) ==
    CASE body = BodyEmpty      -> PyStr(<<>>)
      [] body = BodyOkJson     -> PyDict(<< <<(<<"o", "k">>), PyBool(TRUE)>> >>)
      [] body = BodyDataDone   -> PyStr(<<"[", "D", "O", "N", "E", "]">>)
      [] body = BodyQuotedDone -> PyStr(<<"[", "D", "O", "N", "E", "]">>)
      [] body = BodyDataList   -> PyList(<<PyInt(1), PyStr(<<"a">>)>>)
      [] body = BodyHi         -> PyStr(<<"h", "i">>)
      [] body = BodyZero       -> PyInt(0)
      [] body = BodyNull       -> PyNone

\* The bodies whose cleaned value is truthy and not "[DONE]".
KeptBodies == {BodyOkJson, BodyDataList, BodyHi}

IsKeptResponse(m) == m.type = "http.response.body" /\ BodyOf(m) \in KeptBodies

\* C9 (amended): request_data is the value decoded from the cleaned text of
\* the latest http.request whose body decodes as UTF-8: the parsed JSON
\* value where the cleaned text is valid JSON, else the cleaned text (not
\* the original text).  response_data is that value for the latest
\* http.response.body for which it is truthy and not "[DONE]", and absent
\* when there was none.
C9_StoredIsDecodedCleanText ==
    \A r \in Reqs :
        QueryReq(r) =>
            LET i == LastIndex(appSent[r], IsDecodableRequest)
                j == LastIndex(appSent[r], IsKeptResponse)
            IN  /\ DictHas(state[r], RequestData) <=> i > 0
                /\ i > 0 =>
                      DictGet(state[r], RequestData, PyNone)
                         = CleanedValue(BodyOf(appSent[r][i]))
                /\ DictHas(state[r], ResponseData) <=> j > 0
                /\ j > 0 =>
                      DictGet(state[r], ResponseData, PyNone)
                         = CleanedValue(BodyOf(appSent[r][j]))

C9_Witness ==
    \E r \in Reqs :
        /\ QueryReq(r)
        /\ Len(appSent[r]) = 2
        /\ IsRequest(appSent[r][1])
        /\ BodyOf(appSent[r][1]) = BodyDataList
        /\ appSent[r][2].type = "http.response.body"
        /\ BodyOf(appSent[r][2]) = BodyHi
        /\ DictGet(state[r], RequestData, PyNone)
              = PyList(<<PyInt(1), PyStr(<<"a">>)>>)
        /\ DictGet(state[r], ResponseData, PyNone) = PyStr(<<"h", "i">>)

\* C10 (as claimed): under QueryLoggerMiddleware no decode error of a
\* message body leaves send_wrapper, and every message the application
\* sends is forwarded to the real send.
C10_DecodeErrorsRecovered ==
    \A r \in Reqs :
        QueryReq(r) =>
            \A i \in 1..Len(appSent[r]) :
                /\ sendResult[r][i] # "UnicodeDecodeError"
                /\ \E j \in 1..Len(forwarded[r]) : forwarded[r][j].id = i

\* The exception send_wrapper raises for message before it calls the real
\* send, "ok" if none.
HookFailure(middleware, m) ==
    IF middleware = "TimingMiddleware"
    THEN IF m.type = "http.response.start" /\ ~m.hasHeaders
         THEN "KeyError" ELSE "ok"
    ELSE IF m.type \in {"http.request", "http.response.body"}
            /\ BodyOf(m) = BodyInvalid
         THEN "UnicodeDecodeError" ELSE "ok"

ForwardsOf(r, i) == {j \in 1..Len(forwarded[r]) : forwarded[r][j].id = i}

\* C11: what the wrapped send gives the application for a message is the
\* exception the hook raised, if it raised, and else exactly what the real
\* send returned or raised for that message; the real send is called at
\* most once for a message (no retry) and not at all after a hook failure.
C11_FailuresPropagateUnchanged ==
    \A r \in Reqs :
        Intercepted(r) =>
            \A i \in 1..Len(sendResult[r]) :
                LET failure == HookFailure(mw[r], appSent[r][i])
                IN  /\ Cardinality(ForwardsOf(r, i)) <= 1
                    /\ failure # "ok" =>
                          /\ ForwardsOf(r, i) = {}
                          /\ sendResult[r][i] = failure
                    /\ failure = "ok" =>
                          /\ ForwardsOf(r, i) # {}
                          /\ \A j \in ForwardsOf(r, i) :
                                sendResult[r][i] = realResult[r][j]

C11_Witness ==
    \E r \in Reqs :
        /\ QueryReq(r)
        /\ Len(appSent[r]) = 2
        /\ realResult[r] = <<"SendError">>
        /\ sendResult[r] = <<"SendError", "UnicodeDecodeError">>
        /\ outcome[r] = "UnicodeDecodeError"

\* The text "None" the exit record shows for a missing value.
NoneText == PyStr(<<"N", "o", "n", "e">>)

IsBody(m) == m.type = "http.response.body"

\* The exit record of request r reports what r itself sent.
OwnExitRecord(r) ==
    LET rec == ExitRecords(r)[1]
        i == LastIndex(appSent[r], IsRequest)
        j == LastIndex(appSent[r], IsBody)
        k == LastIndex(appSent[r], IsStart)
    IN  IF mw[r] = "QueryLoggerMiddleware"
        THEN /\ rec.args[3] = IF i > 0
                              THEN CleanedValue(BodyOf(appSent[r][i]))
                              ELSE NoneText
             /\ rec.args[4] = IF j > 0
                              THEN CleanedValue(BodyOf(appSent[r][j]))
                              ELSE NoneText
        ELSE /\ DictHas(rec.args[3], StartTime)
             /\ DictHas(rec.args[3], EndTime)
             /\ DictHas(rec.args[3], ReceiveTime) <=> i > 0
             /\ DictHas(rec.args[3], RespondTime) <=> k > 0

\* The headers injected for request r show what r itself did before.
OwnHeaders(r) ==
    \A j \in 1..Len(forwarded[r]) :
        LET m == forwarded[r][j]
        IN  IsStart(m) =>
               /\ HasHeader(m.headers, XBugStartTime)
               /\ HasHeader(m.headers, XBugRespondTime)
               /\ ~HasHeader(m.headers, XBugEndTime)
               /\ HasHeader(m.headers, XBugReceiveTime)
                     <=> \E i \in 1..(m.id - 1) : IsRequest(appSent[r][i])

\* C12: with the requests of one middleware instance interleaved at every
\* await, the headers injected for a request and its exit record show the
\* state written for that request only: the request and response data of
\* its own messages (the text "None" where it sent none), the timestamps of
\* its own events.
C12_RequestsIsolated ==
    \A r \in ConcReqs :
        /\ mw[r] = "TimingMiddleware" => OwnHeaders(r)
        /\ Len(ExitRecords(r)) > 0 => OwnExitRecord(r)

\* Request 1 is suspended in send for its http.request while request 2
\* runs from its call to its exit record without sending an http.request.
C12_Witness ==
    /\ pc[1] = "done" /\ pc[2] = "done"
    /\ mw[1] = "QueryLoggerMiddleware"
    /\ LastIndex(appSent[1], IsRequest) > 0
    /\ LastIndex(appSent[2], IsRequest) = 0
    /\ LastIndex(appSent[2], IsBody) > 0
    /\ \E a, b, c \in 1..Len(log) :
          /\ a < b /\ b < c
          /\ log[a].req = 1 /\ log[a].kind = "event"
          /\ log[b].req = 2 /\ log[b].kind = "exit"
          /\ log[b].args[3] = NoneText
          /\ log[c].req = 1 /\ log[c].kind = "exit"
          /\ log[c].args[3] # NoneText

\* The terminal states of a request.
PassthroughDone(r) ==
    /\ scope[r].type # "http"
    /\ RecordsOf(r) = <<>>
    /\ outcome[r] = appOutcome[r]

LoggedSuccess(r) ==
    /\ scope[r].type = "http"
    /\ appOutcome[r] = "returned"
    /\ outcome[r] = "returned"
    /\ Len(ExitRecords(r)) = 1
    /\ RecordsOf(r)[Len(RecordsOf(r))].kind = "exit"

LoggedFailure(r) ==
    /\ scope[r].type = "http"
    /\ Raised(appOutcome[r])
    /\ outcome[r] = appOutcome[r]
    /\ Len(ExitRecords(r)) = 1
    /\ RecordsOf(r)[Len(RecordsOf(r))].kind = "exit"

Terminal(r) ==
    Cardinality({k \in 1..3 :
                    \/ k = 1 /\ PassthroughDone(r)
                    \/ k = 2 /\ LoggedSuccess(r)
                    \/ k = 3 /\ LoggedFailure(r)}) = 1

\* C13: where every application that was called eventually returns or
\* raises, every request that was called eventually is done; a request that
\* is done is in exactly one of the terminal states PASSTHROUGH_DONE (non-
\* HTTP scope, nothing logged), LOGGED_SUCCESS (application returned, exit
\* record logged last) and LOGGED_FAILURE (application raised, exit record
\* logged last, the failure re-raised); and once a request is done none of
\* its messages is forwarded and no record of it is logged any more.
C13_ReachesOneTerminalState ==
    /\ \A r \in Reqs : (pc[r] = "app") ~> (pc[r] = "done")
    /\ [](\A r \in Reqs : pc[r] = "done" => Terminal(r))
    /\ [][\A r \in Reqs :
             pc[r] = "done" =>
                /\ pc'[r] = "done"
                /\ forwarded'[r] = forwarded[r]
                /\ appSent'[r] = appSent[r]
                /\ log' = log
                /\ output' = output]_vars

C13_Witness ==
    \E r \in Reqs :
        /\ pc[r] = "done"
        /\ LoggedFailure(r)
        /\ Len(forwarded[r]) = 2
        /\ appOutcome[r] = "SendError"

\* The state mapping in the exit record of a TimingMiddleware request.
LoggedState(r) == ExitRecords(r)[1].args[3]

\* C14: the state in the exit record of every HTTP request of
\* TimingMiddleware has start_time and end_time; end_time is the key written
\* last and its value is >= every other timestamp of the record; and the
\* record has receive_time when the application sent http.request and
\* respond_time when it sent http.response.start.
C14_ExitRecordTimestamps ==
    \A r \in Reqs :
        (TimingReq(r) /\ pc[r] = "done") =>
            LET st == LoggedState(r)
                end == DictGet(st, EndTime, -1)
            IN  /\ Len(ExitRecords(r)) = 1
                /\ DictHas(st, StartTime)
                /\ DictHas(st, EndTime)
                /\ st[Len(st)][1] = EndTime
                /\ \A i \in 1..Len(st) : st[i][2] <= end
                /\ LastIndex(appSent[r], IsRequest) > 0
                      => DictHas(st, ReceiveTime)
                /\ LastIndex(appSent[r], IsStart) > 0
                      => DictHas(st, RespondTime)

C14_Witness ==
    \E r \in Reqs :
        /\ TimingReq(r)
        /\ pc[r] = "done"
        /\ Len(LoggedState(r)) = 4
        /\ DictGet(LoggedState(r), StartTime, -1) = 1
        /\ DictGet(LoggedState(r), ReceiveTime, -1) = 2
        /\ DictGet(LoggedState(r), RespondTime, -1) = 3
        /\ DictGet(LoggedState(r), EndTime, -1) = 4

\* The raw name of the header X-Bug-<Key> for the keys of the state
\* (header names are case-insensitive; the raw list holds them lower-cased).
XBugName(key) ==
    CASE key = StartTime   -> XBugStartTime
      [] key = ReceiveTime -> XBugReceiveTime
      [] key = RespondTime -> XBugRespondTime
      [] key = EndTime     -> XBugEndTime

\* str() of the clock values: the float n.0
FloatText(n) ==
    << <<"0", ".", "0">>, <<"1", ".", "0">>, <<"2", ".", "0">>,
       <<"3", ".", "0">>, <<"4", ".", "0">>, <<"5", ".", "0">>,
       <<"6", ".", "0">>, <<"7", ".", "0">> >>[n + 1]

IsXBug(name) ==
    Len(name) >= 6 /\ SubSeq(name, 1, 6) = <<"x", "-", "b", "u", "g", "-">>

OtherHeaders(headers) == SelectSeq(headers, LAMBDA h : ~IsXBug(h[1]))

\* The message TimingMiddleware just forwarded for request r is an
\* http.response.start.
StartForwarded(r) ==
    /\ TimingReq(r)
    /\ Len(forwarded'[r]) = Len(forwarded[r]) + 1
    /\ IsStart(forwarded'[r][Len(forwarded'[r])])

\* C15: when TimingMiddleware forwards an http.response.start, its headers
\* hold, for every key of the state at that moment (respond_time included),
\* a header X-Bug-<Key> whose value is the text of the state value; every
\* header that was not in the application's message has a name starting
\* with X-Bug-; and the application's headers whose names do not start with
\* X-Bug- are forwarded as they were, names, values and order.
C15_StateInjectedAsXBugHeaders ==
    [][\A r \in Reqs :
          StartForwarded(r) =>
             LET fwd == forwarded'[r][Len(forwarded'[r])]
                 app == appSent'[r][fwd.id]
                 st == state'[r]
             IN  /\ DictHas(st, RespondTime)
                 /\ DictGet(st, RespondTime, -1) = clock'
                 /\ \A i \in 1..Len(st) :
                       \E n \in 1..Len(fwd.headers) :
                           fwd.headers[n]
                              = <<XBugName(st[i][1]), FloatText(st[i][2])>>
                 /\ \A n \in 1..Len(fwd.headers) :
                       (\A i \in 1..Len(app.headers) :
                            app.headers[i] # fwd.headers[n])
                          => IsXBug(fwd.headers[n][1])
                 /\ OtherHeaders(fwd.headers) = OtherHeaders(app.headers)
                 /\ fwd.type = app.type]_vars

\* The application sent http.request, then http.response.start with a via
\* header and a stale x-bug-start-time header.
C15_Witness ==
    \E r \in Reqs :
        /\ TimingReq(r)
        /\ Len(forwarded[r]) = 2
        /\ IsRequest(appSent[r][1])
        /\ IsStart(appSent[r][2])
        /\ appSent[r][2].headers
              = << <<XBugStartTime, <<"o", "l", "d">>>>, <<Via, <<"a">>>> >>
        /\ Len(forwarded[r][2].headers) = 4
        /\ forwarded[r][2].headers[2] = <<Via, <<"a">>>>
        /\ HasHeader(forwarded[r][2].headers, XBugReceiveTime)

\* C16 (as claimed): the exit record of a QueryLoggerMiddleware request
\* reports as request_data the value decoded from the last http.request the
\* application passed to send, and as response_data the value decoded from
\* the last http.response.body whose value is non-empty and not "[DONE]";
\* the text "None" where there was no such message.
C16_ExitReportsLastMessages ==
    \A r \in Reqs :
        (QueryReq(r) /\ pc[r] = "done") =>
            LET rec == ExitRecords(r)[1]
                i == LastIndex(appSent[r], IsRequest)
                j == LastIndex(appSent[r], IsKeptResponse)
            IN  /\ rec.args[3] =
                      IF i = 0 THEN NoneText
                      ELSE IF Decodes(appSent[r][i])
                      THEN CleanedValue(BodyOf(appSent[r][i]))
                      ELSE [t |-> "undecodable"]
                /\ rec.args[4] =
                      IF j = 0 THEN NoneText
                      ELSE CleanedValue(BodyOf(appSent[r][j]))

\* The per-event records logged for request r, in order.
EventRecords(r) ==
    SelectSeq(log, LAMBDA e : e.req = r /\ e.kind = "event")

\* C17: under QueryLoggerMiddleware the per-event records of a request are,
\* in order, exactly the messages the application passed to send, one
\* record for each, as the application passed them; this holds also for
\* the messages the hook failed on and that were never forwarded.
C17_OneEventRecordPerMessage ==
    \A r \in Reqs :
        QueryReq(r) =>
            /\ Len(EventRecords(r)) = Len(appSent[r])
            /\ \A i \in 1..Len(appSent[r]) :
                  EventRecords(r)[i].args = <<appSent[r][i]>>

\* The second message failed to decode and was not forwarded; both were
\* logged.
C17_Witness ==
    \E r \in Reqs :
        /\ QueryReq(r)
        /\ Len(appSent[r]) = 2
        /\ BodyOf(appSent[r][2]) = BodyInvalid
        /\ sendResult[r] = <<"ok", "UnicodeDecodeError">>
        /\ Len(forwarded[r]) = 1
        /\ Len(EventRecords(r)) = 2

\* C18 (as claimed): QueryLoggerMiddleware passes every message of the
\* application to the real send, as the application gave it; what
\* TimingMiddleware passes to the real send differs from the application's
\* message in nothing but the headers of an http.response.start.
C18_MessagesForwardedUnaltered ==
    \A r \in Reqs :
        /\ QueryReq(r) =>
              \A i \in 1..Len(sendResult[r]) :
                  \E j \in 1..Len(forwarded[r]) :
                      forwarded[r][j] = appSent[r][i]
        /\ TimingReq(r) =>
              \A j \in 1..Len(forwarded[r]) :
                  LET fwd == forwarded[r][j]
                      app == appSent[r][fwd.id]
                  IN  IF IsStart(app)
                      THEN fwd = [app EXCEPT !.headers = fwd.headers]
                      ELSE fwd = app

\* What a step appends to the log and to the output of the handlers.
NewRecords == SubSeq(log', Len(log) + 1, Len(log'))

NewOutput == SubSeq(output', Len(output) + 1, Len(output'))

\* C19: the logger "debug.access" has as many handlers as middleware
\* instances were constructed, and every record logged when k instances
\* have been constructed is written k times, once by each handler.
C19_HandlerPerConstruction ==
    /\ [](handlers = constructed)
    /\ [][/\ Len(NewOutput) = constructed * Len(NewRecords)
          /\ \A i \in 1..Len(NewRecords), h \in 1..constructed :
                \E n \in 1..Len(NewOutput) :
                    /\ NewOutput[n].record = NewRecords[i]
                    /\ NewOutput[n].handler = h]_vars

\* With three instances constructed the exit record is written three times.
C19_Witness ==
    /\ constructed = 3
    /\ handlers = 3
    /\ Len(log) > 0
    /\ log[Len(log)].kind = "exit"
    /\ Len(output) >= 3
    /\ \A h \in 1..3 :
          output[Len(output) - 3 + h] = [record |-> log[Len(log)], handler |-> h]

\* TimingMiddleware just forwarded an http.response.start for request r
\* and the application had passed an http.response.start to send before.
StartForwardedAgain(r) ==
    /\ StartForwarded(r)
    /\ LastIndex(appSent[r], IsStart) > 0

HeadersNamed(headers, name) == SelectSeq(headers, LAMBDA h : h[1] = name)

StateNames(st) == {XBugName(st[i][1]) : i \in 1..Len(st)}

\* C20 (as claimed): when the application sends http.response.start again,
\* every header of the forwarded message whose name starts with X-Bug-
\* occurs once and its value is the text of a state value at this pass.
C20_XBugHeadersOnceAndCurrent ==
    [][\A r \in Reqs :
          StartForwardedAgain(r) =>
             LET fwd == forwarded'[r][Len(forwarded'[r])]
                 st == state'[r]
             IN  \A n \in 1..Len(fwd.headers) :
                     IsXBug(fwd.headers[n][1]) =>
                        /\ Len(HeadersNamed(fwd.headers, fwd.headers[n][1])) = 1
                        /\ \E i \in 1..Len(st) :
                              fwd.headers[n]
                                 = <<XBugName(st[i][1]), FloatText(st[i][2])>>]_vars

\* C20 (amended): when the application sends http.response.start again, the
\* forwarded message has, for every key of the state at this pass, exactly
\* one header X-Bug-<Key>, holding the text of the state value at this
\* pass, and the injected headers do not accumulate: the other headers are
\* the headers of the application's message that are not named after a
\* state key, unchanged.  A header X-Bug-* of the application that is not
\* named after a state key (X-Bug-End-Time) is among these: it keeps the
\* application's value.
C20_StateHeadersOnceAndCurrent ==
    [][\A r \in Reqs :
          StartForwardedAgain(r) =>
             LET fwd == forwarded'[r][Len(forwarded'[r])]
                 app == appSent'[r][fwd.id]
                 st == state'[r]
                 Foreign(h) == h[1] \notin StateNames(st)
             IN  /\ \A i \in 1..Len(st) :
                       HeadersNamed(fwd.headers, XBugName(st[i][1]))
                          = << <<XBugName(st[i][1]), FloatText(st[i][2])>> >>
                 /\ SelectSeq(fwd.headers, Foreign)
                       = SelectSeq(app.headers, Foreign)
                 /\ Len(fwd.headers)
                       = Len(st) + Len(SelectSeq(app.headers, Foreign))]_vars

\* The application sends the message object it sent before, after the
\* clock has advanced: the headers injected at the first pass are replaced.
C20_Witness ==
    \E r \in Reqs :
        /\ TimingReq(r)
        /\ Len(forwarded[r]) = 2
        /\ IsStart(appSent[r][1])
        /\ IsStart(appSent[r][2])
        /\ appSent[r][1].headers = << <<Via, <<"a">>>> >>
        /\ appSent[r][2].headers = forwarded[r][1].headers
        /\ Len(forwarded[r][2].headers) = 3
        /\ HeadersNamed(forwarded[r][1].headers, XBugRespondTime)
              # HeadersNamed(forwarded[r][2].headers, XBugRespondTime)

====
